---- MODULE Spec2Model ----
(***************************************************************************)
(* Model of the Discord interactions worker (src/src/server.js): the       *)
(* POST / handler with signature verification, the authorization gate,    *)
(* the /link and /unlink command handlers and the outbound admin call.    *)
(*                                                                         *)
(* JavaScript strings that the handler transforms (option values, command *)
(* names) are sequences of one-character strings; literal template text   *)
(* is kept as one chunk per literal, so a message is a sequence of chunks *)
(* and characters in the order the template produces them.  Characters    *)
(* outside ASCII in the literals are written as their Discord shortcodes  *)
(* (:x:, :white_check_mark:, :no_entry:), the arrow as -> and the bullet  *)
(* as *; the backquote is written as the quote '.                         *)
(***************************************************************************)
EXTENDS Naturals, Sequences, FiniteSets

VARIABLES pc, request, interaction, events, calls, downstream, responses

vars == <<pc, request, interaction, events, calls, downstream, responses>>

(* ------------------------------ bounds -------------------------------- *)

\* longest option value that a request carries
MaxLen == 2

(* ------------------------- JavaScript strings ------------------------- *)

Chars == {" ", "A"}

Strings == UNION {[1..k -> Chars] : k \in 0..MaxLen}

\* the value of an option that is not in the list, or of a missing field
Undefined == <<"undefined">>

\* a missing identifier / a missing field of a downstream response
NoVal == "<undefined>"

Lower(c) ==
  CASE c = "A" -> "a"
    [] c = "I" -> "i"
    [] c = "K" -> "k"
    [] c = "L" -> "l"
    [] c = "N" -> "n"
    [] c = "U" -> "u"
    [] OTHER -> c

ToLowerCase(s) == [k \in 1..Len(s) |-> Lower(s[k])]

RECURSIVE TrimStart(_)
TrimStart(s) == IF s # <<>> /\ Head(s) = " " THEN TrimStart(Tail(s)) ELSE s

RECURSIVE TrimEnd(_)
TrimEnd(s) ==
  IF s # <<>> /\ s[Len(s)] = " " THEN TrimEnd(SubSeq(s, 1, Len(s) - 1)) ELSE s

Trim(s) == TrimEnd(TrimStart(s))

\* a ?? b
Coalesce(a, b) == IF a = Undefined THEN b ELSE a

\* String(v ?? '')
StringOrEmpty(v) == IF v = Undefined THEN <<>> ELSE v

\* truthiness of an option value (undefined and '' are falsy)
Truthy(v) == v # Undefined /\ v # <<>>

RECURSIVE Join(_, _)
Join(list, sep) ==
  IF list = <<>> THEN <<>>
  ELSE IF Len(list) = 1 THEN <<list[1]>>
  ELSE <<list[1], sep>> \o Join(Tail(list), sep)

(* ----------------------------- constants ------------------------------ *)

ADMIN_BASE == "https://twitch.budgiebailey.workers.dev"

AdminId == "1356193903497318542"

ADMIN_USER_IDS == {AdminId}

LINK_COMMAND_name == <<"l", "i", "n", "k">>

UNLINK_COMMAND_name == <<"u", "n", "l", "i", "n", "k">>

(* ------------------------------ requests ------------------------------ *)

Ids == {NoVal, "42", AdminId}

InteractionTypes == {"PING", "APPLICATION_COMMAND", "MESSAGE_COMPONENT"}

\* a command's invocation carries options among those its handler reads:
\* the login under its current and its legacy name, and the Discord user
\* (link) or the broadcaster id (unlink)
LinkOptionNames == <<"twitch_login", "login", "discord_user">>

UnlinkOptionNames == <<"twitch_login", "login", "broadcaster_id">>

LinkNames == {LINK_COMMAND_name, <<"L", "I", "N", "K">>}

UnlinkNames == {UNLINK_COMMAND_name, <<"U", "n", "l", "i", "n", "k">>}

\* names of no command of this worker, and a missing name
OtherNames == {<<"p", "i", "n", "g">>, <<>>}

\* the option list that gives names[k] the value vals[k], leaving out the
\* options whose value is Undefined
RECURSIVE OptionList(_, _, _)
OptionList(names, vals, k) ==
  IF k > Len(names) THEN <<>>
  ELSE IF vals[k] = Undefined THEN OptionList(names, vals, k + 1)
  ELSE <<[name |-> names[k], value |-> vals[k]]>>
         \o OptionList(names, vals, k + 1)

OptionLists(names) ==
  { OptionList(names, vals, 1) :
      vals \in [1..Len(names) -> Strings \cup {Undefined}] }

NoData == [present |-> FALSE, name |-> <<>>, isArray |-> FALSE, options |-> <<>>]

Datas ==
  {NoData}
    \cup [present : {TRUE}, name : LinkNames \cup OtherNames, isArray : {TRUE},
          options : OptionLists(LinkOptionNames)]
    \cup [present : {TRUE}, name : UnlinkNames, isArray : {TRUE},
          options : OptionLists(UnlinkOptionNames)]
    \cup [present : {TRUE}, name : LinkNames \cup UnlinkNames \cup OtherNames,
          isArray : {FALSE}, options : {<<>>}]

Interactions ==
  [type : {"APPLICATION_COMMAND"}, member : Ids, user : Ids, data : Datas]
    \cup [type : InteractionTypes \ {"APPLICATION_COMMAND"}, member : Ids,
          user : Ids, data : {NoData}]

NoInteraction ==
  [type |-> "none", member |-> NoVal, user |-> NoVal, data |-> NoData]

Requests == [signature : BOOLEAN, timestamp : BOOLEAN, keyOk : BOOLEAN]

NoRequest == [signature |-> FALSE, timestamp |-> FALSE, keyOk |-> FALSE]

(* ------------------------ downstream admin API ------------------------ *)

Malformed ==
  [kind |-> "malformed", twitch_id |-> NoVal, created |-> <<>>,
   broadcaster_id |-> NoVal]

NullBody ==
  [kind |-> "null", twitch_id |-> NoVal, created |-> <<>>,
   broadcaster_id |-> NoVal]

EmptyObject ==
  [kind |-> "object", twitch_id |-> NoVal, created |-> <<>>,
   broadcaster_id |-> NoVal]

Bodies ==
  { Malformed, NullBody, EmptyObject,
    [kind |-> "object", twitch_id |-> "141981764",
     created |-> <<"stream.online", "stream.offline">>,
     broadcaster_id |-> NoVal],
    [kind |-> "object", twitch_id |-> NoVal, created |-> <<>>,
     broadcaster_id |-> "564886943"] }

Statuses == {200, 500}

NetworkError ==
  [net |-> "error", status |-> 0, body |-> Malformed]

Outcomes ==
  {NetworkError} \cup [net : {"ok"}, status : Statuses, body : Bodies]

NoOutcome == [net |-> "none", status |-> 0, body |-> Malformed]

(* ------------------------------ helpers ------------------------------- *)

\* new JsonResponse(body): status 200 with the JSON content type
JsonResponse(body) ==
  [status |-> 200, contentType |-> "application/json;charset=UTF-8",
   body |-> body]

\* new JsonResponse(body, {status}): the init given replaces the default
\* one, so the JSON content-type header is not set
JsonResponseInit(body, status) ==
  [status |-> status, contentType |-> "text/plain;charset=UTF-8",
   body |-> body]

\* new Response(text, {status})
TextResponse(text, status) ==
  [status |-> status, contentType |-> "text/plain;charset=UTF-8",
   body |-> [text |-> text]]

\* the envelope every chat-visible reply uses
ChannelMessage(content) ==
  JsonResponse([type |-> "CHANNEL_MESSAGE_WITH_SOURCE",
                data |-> [content |-> content]])

\* getInvokerId with the two identities tried in the wrong order
getInvokerId_userFirst(i) ==
  IF i.user # NoVal THEN i.user
  ELSE IF i.member # NoVal THEN i.member
  ELSE ""

getInvokerId(i) ==
  IF i.member # NoVal THEN i.member
  ELSE IF i.user # NoVal THEN i.user
  ELSE ""

isAuthorized(i) == getInvokerId(i) \in ADMIN_USER_IDS

\* opts.find((o) => o?.name === name)?.value
RECURSIVE FindValue(_, _)
FindValue(opts, name) ==
  IF opts = <<>> THEN Undefined
  ELSE IF Head(opts).name = name THEN Head(opts).value
  ELSE FindValue(Tail(opts), name)

getOption(i, name) ==
  IF ~i.data.present \/ ~i.data.isArray THEN Undefined
  ELSE FindValue(i.data.options, name)

\* the login lookup without its legacy fallback
LoginOpt_noAlias(i) == getOption(i, "twitch_login")

\* getOption(interaction, 'twitch_login') ?? getOption(interaction, 'login')
LoginOpt(i) == Coalesce(getOption(i, "twitch_login"), getOption(i, "login"))

(* --------------------------- outbound call ---------------------------- *)

StatusString(status) == IF status = 200 THEN "200" ELSE "500"

StatusText(status) == IF status = 200 THEN "OK" ELSE "Internal Server Error"

\* a status check that lets every status pass
ResOk_always(status) == TRUE

ResOk(status) == status \in 200..299

FetchFailedMessage == "Network connection lost."

\* JSON.stringify(data) of a decoded response body
JSONStringify(data) ==
  <<"{">>
    \o (IF data.twitch_id # NoVal
          THEN <<"\"twitch_id\":\"", data.twitch_id, "\"">> ELSE <<>>)
    \o (IF data.created # <<>>
          THEN <<"\"created\":[">> \o Join(data.created, ",") \o <<"]">>
          ELSE <<>>)
    \o (IF data.broadcaster_id # NoVal
          THEN <<"\"broadcaster_id\":\"", data.broadcaster_id, "\"">>
          ELSE <<>>)
    \o <<"}">>

\* let data = {}; try { data = await res.json() } catch (_) {}
ResJson(body) == IF body.kind = "malformed" THEN EmptyObject ELSE body

Threw(message) == [threw |-> TRUE, message |-> message, data |-> EmptyObject]

Returned(data) == [threw |-> FALSE, message |-> <<>>, data |-> data]

\* postJSON without the try/catch around res.json(): a body that is not JSON
\* makes it throw
postJSON_strict(o) ==
  IF o.net = "error" THEN Threw(<<FetchFailedMessage>>)
  ELSE IF o.body.kind = "malformed"
    THEN Threw(<<"Unexpected token < in JSON at position 0">>)
  ELSE IF ~ResOk(o.status)
    THEN Threw(<<"HTTP ", StatusString(o.status), " ", StatusText(o.status)>>
                 \o (IF o.body.kind # "null"
                       THEN <<": ">> \o JSONStringify(o.body) ELSE <<>>))
  ELSE Returned(o.body)

\* the completion of postJSON when the fetch settles with outcome o
postJSON(o) ==
  IF o.net = "error" THEN Threw(<<FetchFailedMessage>>)
  ELSE LET data == ResJson(o.body) IN
       IF ~ResOk(o.status)
         THEN Threw(<<"HTTP ", StatusString(o.status), " ", StatusText(o.status)>>
                      \o (IF data.kind # "null"
                            THEN <<": ">> \o JSONStringify(data) ELSE <<>>))
         ELSE Returned(data)

\* the fetch that postJSON(url, token, body) issues
Fetch(path, payload) ==
  [method |-> "POST", base |-> ADMIN_BASE, path |-> path,
   authorization |-> "Bearer ADMIN_TOKEN", payload |-> payload]

(* --------------------------- link handler ----------------------------- *)

\* the login normalisation without toLowerCase()
LinkLogin_noLowerCase(i) == Trim(StringOrEmpty(LoginOpt(i)))

\* String(loginOpt ?? '').trim().toLowerCase()
LinkLogin(i) == ToLowerCase(Trim(StringOrEmpty(LoginOpt(i))))

\* String(discordUserOpt ?? '').trim()
LinkDiscordUserId(i) == Trim(StringOrEmpty(getOption(i, "discord_user")))

\* the validation of link without the test of the Discord user
LinkMissing_loginOnly(login, discordUserId) == login = <<>>

\* if (!login || !discordUserId)
LinkMissing(login, discordUserId) == login = <<>> \/ discordUserId = <<>>

LinkPayload(i) ==
  [login |-> LinkLogin(i), discord_user_id |-> LinkDiscordUserId(i)]

LinkUsage ==
  ChannelMessage(
    <<":x: Missing required options. Example: '",
      "/link twitch_login:cxrys_ discord_user:@User", "'">>)

LinkFailed(message) ==
  ChannelMessage(<<":x: Link failed: '">> \o message \o <<"'">>)

\* Array.isArray(res.created) && res.created.length ? ' (created: ...)' : ''
CreatedNote(res) ==
  IF res.created # <<>>
    THEN <<" (created: ">> \o Join(res.created, ", ") \o <<")">>
    ELSE <<>>

LinkSucceeded(i, res) ==
  ChannelMessage(
    <<":white_check_mark: Linked **">> \o LinkLogin(i) \o <<"** -> <@">>
      \o LinkDiscordUserId(i) \o <<">\nTwitch ID: '">>
      \o <<IF res.twitch_id # NoVal THEN res.twitch_id ELSE "unknown">>
      \o <<"'">> \o CreatedNote(res))

\* the reply of the link handler once its fetch settled with outcome o; a null
\* response makes res.created throw, inside the try block
LinkReply(i, o) ==
  LET r == postJSON(o) IN
  IF r.threw THEN LinkFailed(r.message)
  ELSE IF r.data.kind = "null"
    THEN LinkFailed(<<"Cannot read properties of null (reading 'created')">>)
  ELSE LinkSucceeded(i, r.data)

(* -------------------------- unlink handler ---------------------------- *)

UnlinkBid(i) == getOption(i, "broadcaster_id")

\* if (!loginOpt && !bidOpt)
UnlinkMissing(loginOpt, bidOpt) == ~Truthy(loginOpt) /\ ~Truthy(bidOpt)

\* const payload = {}; if (loginOpt) payload.login = ...;
\* if (bidOpt) payload.broadcaster_id = ...
UnlinkPayload(i) ==
  LET keys == (IF Truthy(LoginOpt(i)) THEN {"login"} ELSE {})
                \cup (IF Truthy(UnlinkBid(i)) THEN {"broadcaster_id"} ELSE {})
  IN [k \in keys |->
        IF k = "login" THEN ToLowerCase(Trim(LoginOpt(i)))
        ELSE Trim(UnlinkBid(i))]

UnlinkUsage ==
  ChannelMessage(
    <<":x: Provide 'twitch_login' **or** 'broadcaster_id'.\n",
      "Examples:\n* '", "/unlink twitch_login:cxrys_", "'\n* '",
      "/unlink broadcaster_id:564886943", "'">>)

UnlinkFailed(message) ==
  ChannelMessage(<<":x: Unlink failed: '">> \o message \o <<"'">>)

\* res?.broadcaster_id || payload.broadcaster_id || 'unknown'
UnlinkedId(res, payload) ==
  IF res.kind # "null" /\ res.broadcaster_id # NoVal THEN <<res.broadcaster_id>>
  ELSE IF "broadcaster_id" \in DOMAIN payload /\ payload.broadcaster_id # <<>>
    THEN payload.broadcaster_id
  ELSE <<"unknown">>

UnlinkSucceeded(i, res) ==
  ChannelMessage(
    <<":white_check_mark: Unlinked Twitch ID '">> \o UnlinkedId(res, UnlinkPayload(i))
      \o <<"' (EventSub removed, mapping cleared)">>)

UnlinkReply(i, o) ==
  LET r == postJSON(o) IN
  IF r.threw THEN UnlinkFailed(r.message) ELSE UnlinkSucceeded(i, r.data)

(* ----------------------------- dispatch ------------------------------- *)

UnknownType == JsonResponseInit([error |-> "Unknown Type"], 400)

\* what the handler has done when it returns or suspends: the next control
\* point, the steps it took, the fetch it issued and the response it returned
Outcome(next, steps, fetches, replies) ==
  [pc |-> next, events |-> steps, calls |-> fetches, responses |-> replies]

Replied(steps, response) == Outcome("done", steps, <<>>, <<response>>)

\* String(interaction.data.name || '').toLowerCase()
CommandName(i) == ToLowerCase(i.data.name)

LinkCase(i) ==
  IF LinkMissing(LinkLogin(i), LinkDiscordUserId(i))
    THEN Replied({"isAuthorized", "switch"}, LinkUsage)
    ELSE Outcome("register", {"isAuthorized", "switch", "fetch"},
                 <<Fetch("/admin/register", LinkPayload(i))>>, <<>>)

UnlinkCase(i) ==
  IF UnlinkMissing(LoginOpt(i), UnlinkBid(i))
    THEN Replied({"isAuthorized", "switch"}, UnlinkUsage)
    ELSE Outcome("unregister", {"isAuthorized", "switch", "fetch"},
                 <<Fetch("/admin/unregister", UnlinkPayload(i))>>, <<>>)

\* switch (String(interaction.data.name || '').toLowerCase()); reading
\* interaction.data.name throws when the interaction has no data object
CommandSwitch(i) ==
  IF ~i.data.present THEN Outcome("fault", {"isAuthorized"}, <<>>, <<>>)
  ELSE IF CommandName(i) = ToLowerCase(LINK_COMMAND_name) THEN LinkCase(i)
  ELSE IF CommandName(i) = ToLowerCase(UNLINK_COMMAND_name) THEN UnlinkCase(i)
  ELSE Replied({"isAuthorized", "switch"}, UnknownType)

NotAuthorised(i) ==
  ChannelMessage(
    <<":no_entry: Not authorised (<@">>
      \o (IF getInvokerId(i) = "" THEN <<>> ELSE <<getInvokerId(i)>>)
      \o <<">).">>)

ApplicationCommand(i) ==
  IF ~isAuthorized(i) THEN Replied({"isAuthorized"}, NotAuthorised(i))
  ELSE CommandSwitch(i)

\* a handshake placed behind the authorization gate
Handshake_gated(i) ==
  IF isAuthorized(i) THEN Replied({"isAuthorized"}, JsonResponse([type |-> "PONG"]))
  ELSE Replied({"isAuthorized"}, NotAuthorised(i))

Handshake(i) == Replied({}, JsonResponse([type |-> "PONG"]))

\* the body of router.post('/') after a successful verification
Dispatch(i) ==
  IF i.type = "PING" THEN Handshake(i)
  ELSE IF i.type = "APPLICATION_COMMAND" THEN ApplicationCommand(i)
  ELSE Replied({}, UnknownType)

\* the reply of the suspended handler once its fetch settled with outcome o
Reply(at, i, o) == IF at = "register" THEN LinkReply(i, o) ELSE UnlinkReply(i, o)

(* --------------------------- verification ----------------------------- *)

\* a validity test that forgets the timestamp header
isValidRequest_noTimestamp(req) == req.signature /\ req.keyOk

\* signature && timestamp && (await verifyKey(...))
isValidRequest(req) == req.signature /\ req.timestamp /\ req.keyOk

\* the steps verifyDiscordRequest takes up to the validity decision
VerifySteps(req) ==
  {"request.text"}
    \cup (IF req.signature /\ req.timestamp THEN {"verifyKey"} ELSE {})

BadSignature == TextResponse("Bad request signature.", 401)

(* ------------------------------ actions ------------------------------- *)

Init ==
  /\ pc = "idle"
  /\ request = NoRequest
  /\ interaction = NoInteraction
  /\ events = {}
  /\ calls = <<>>
  /\ downstream = NoOutcome
  /\ responses = <<>>

\* a POST / request arrives
Receive ==
  /\ pc = "idle"
  /\ \E req \in Requests : request' = req
  /\ pc' = "verify"
  /\ UNCHANGED <<interaction, events, calls, downstream, responses>>

\* verification fails: 401, the body is never parsed
Reject ==
  /\ pc = "verify"
  /\ ~isValidRequest(request)
  /\ pc' = "done"
  /\ events' = VerifySteps(request)
  /\ responses' = <<BadSignature>>
  /\ UNCHANGED <<request, interaction, calls, downstream>>

\* verification succeeds and the body parses to an interaction i: the handler
\* runs until it returns a response, faults, or suspends on its fetch
Handle ==
  /\ pc = "verify"
  /\ isValidRequest(request)
  /\ \E i \in Interactions :
       LET d == Dispatch(i) IN
       /\ interaction' = i
       /\ pc' = d.pc
       /\ events' = VerifySteps(request) \cup {"JSON.parse"} \cup d.events
       /\ calls' = d.calls
       /\ responses' = d.responses
  /\ UNCHANGED <<request, downstream>>

\* verification succeeds and the body is the JSON text null: !interaction
HandleNull ==
  /\ pc = "verify"
  /\ isValidRequest(request)
  /\ pc' = "done"
  /\ events' = VerifySteps(request) \cup {"JSON.parse"}
  /\ responses' = <<BadSignature>>
  /\ UNCHANGED <<request, interaction, calls, downstream>>

\* verification succeeds and the body is not JSON: JSON.parse throws
HandleUnparsable ==
  /\ pc = "verify"
  /\ isValidRequest(request)
  /\ pc' = "fault"
  /\ events' = VerifySteps(request) \cup {"JSON.parse"}
  /\ UNCHANGED <<request, interaction, calls, downstream, responses>>

\* the outbound fetch settles with some outcome o and the handler replies
Settle ==
  /\ pc \in {"register", "unregister"}
  /\ \E o \in Outcomes :
       /\ downstream' = o
       /\ responses' = <<Reply(pc, interaction, o)>>
  /\ pc' = "done"
  /\ UNCHANGED <<request, interaction, events, calls>>

Next ==
  \/ Receive
  \/ Reject
  \/ Handle
  \/ HandleNull
  \/ HandleUnparsable
  \/ Settle

Spec == Init /\ [][Next]_vars

(* ====================== properties of the handler ====================== *)

\* the single response of a finished request has this status
RepliedWith(status) ==
  /\ pc = "done"
  /\ Len(responses) = 1
  /\ responses[1].status = status

\* the single response is a CHANNEL_MESSAGE_WITH_SOURCE envelope, HTTP 200
IsChannelMessage(r) ==
  /\ r.status = 200
  /\ "type" \in DOMAIN r.body
  /\ r.body.type = "CHANNEL_MESSAGE_WITH_SOURCE"
  /\ "data" \in DOMAIN r.body

\* the content of a chat reply (empty for any other response)
ContentOf(r) == IF IsChannelMessage(r) THEN r.body.data.content ELSE <<>>

Contains(content, chunk) == \E k \in 1..Len(content) : content[k] = chunk

StartsWith(content, chunk) == content # <<>> /\ Head(content) = chunk

\* the options an invocation supplies, by name (Undefined when not supplied)
Supplied(i, name) ==
  IF \E k \in 1..Len(i.data.options) : i.data.options[k].name = name
    THEN (CHOOSE o \in {i.data.options[k] : k \in 1..Len(i.data.options)} :
            o.name = name).value
    ELSE Undefined

\* the login an invocation supplies: twitch_login, or else the legacy login
SuppliedLogin(i) ==
  IF Supplied(i, "twitch_login") # Undefined THEN Supplied(i, "twitch_login")
  ELSE Supplied(i, "login")

Blank(v) == v = Undefined \/ \A k \in 1..Len(v) : v[k] = " "

\* the invoker the claims speak of: member.user.id when present, else user.id
Invoker(i) == IF i.member # NoVal THEN i.member ELSE i.user

IsCommand(i) == i.type = "APPLICATION_COMMAND"

IsLink(i) ==
  IsCommand(i) /\ i.data.present /\ ToLowerCase(i.data.name) = <<"l", "i", "n", "k">>

IsUnlink(i) ==
  /\ IsCommand(i)
  /\ i.data.present
  /\ ToLowerCase(i.data.name) = <<"u", "n", "l", "i", "n", "k">>

\* C1: a request that lacks the x-signature-ed25519 header or the
\* x-signature-timestamp header, or that verifyKey rejects, is answered with
\* HTTP 401, and its body is never JSON-parsed, never authorized, never
\* dispatched on and never leads to an outbound admin call.
C1_UnverifiedRejected ==
  (pc # "idle" /\ (~request.signature \/ ~request.timestamp \/ ~request.keyOk))
    => /\ pc \in {"verify", "done"}
       /\ pc = "done" => RepliedWith(401)
       /\ events \cap {"JSON.parse", "isAuthorized", "switch", "fetch"} = {}
       /\ interaction = NoInteraction
       /\ calls = <<>>

C1_Witness ==
  /\ RepliedWith(401)
  /\ request.signature /\ ~request.timestamp /\ request.keyOk
  /\ "request.text" \in events

\* C2: a verified APPLICATION_COMMAND whose invoker (member.user.id when
\* present, otherwise user.id) is not in ADMIN_USER_IDS gets the HTTP 200
\* CHANNEL_MESSAGE_WITH_SOURCE "not authorised" reply that mentions exactly
\* that identifier, whatever the command name and options, and no outbound
\* admin call is made.
C2_UnauthorizedRefused ==
  (IsCommand(interaction) /\ Invoker(interaction) \notin ADMIN_USER_IDS)
    => /\ RepliedWith(200)
       /\ IsChannelMessage(responses[1])
       /\ ContentOf(responses[1]) =
            <<":no_entry: Not authorised (<@">>
              \o (IF Invoker(interaction) = NoVal THEN <<>>
                  ELSE <<Invoker(interaction)>>)
              \o <<">).">>
       /\ calls = <<>>
       /\ "fetch" \notin events

C2_Witness ==
  /\ IsLink(interaction)
  /\ interaction.member = "42"
  /\ interaction.user = AdminId
  /\ Supplied(interaction, "twitch_login") = <<"A">>
  /\ Supplied(interaction, "discord_user") = <<"A">>
  /\ RepliedWith(200)
  /\ Contains(ContentOf(responses[1]), "42")

\* C3: a verified PING is answered with PONG for every invoker identity, also
\* one outside the allow-list and a missing one; the authorization check is
\* not applied and no outbound admin call is made.
C3_PingPong ==
  (interaction.type = "PING")
    => /\ RepliedWith(200)
       /\ responses[1].body = [type |-> "PONG"]
       /\ "isAuthorized" \notin events
       /\ calls = <<>>

C3_Witness ==
  /\ interaction.type = "PING"
  /\ interaction.member = NoVal
  /\ interaction.user = NoVal
  /\ RepliedWith(200)

\* C4: every verified APPLICATION_COMMAND is answered: whatever the invoker,
\* the command name (link, unlink, unrecognized, or a missing data object) and
\* the options and downstream outcome, the handler does not fault and every
\* response it returns is an interaction-response envelope with a type field.
C4_AlwaysEnvelope ==
  IsCommand(interaction)
    => /\ pc # "fault"
       /\ pc = "done" => Len(responses) = 1
       /\ \A k \in 1..Len(responses) : "type" \in DOMAIN responses[k].body

\* an authorized invocation: verified, a command, invoked from the allow-list
Authorized(i) == IsCommand(i) /\ Invoker(i) \in ADMIN_USER_IDS

\* a link invocation that passes validation, as the claims state it
ValidLink(i) ==
  /\ Authorized(i)
  /\ IsLink(i)
  /\ ~Blank(SuppliedLogin(i))
  /\ ~Blank(Supplied(i, "discord_user"))

\* an unlink invocation that supplies a login or a broadcaster id
ValidUnlink(i) ==
  /\ Authorized(i)
  /\ IsUnlink(i)
  /\ \/ Truthy(SuppliedLogin(i))
     \/ Truthy(Supplied(i, "broadcaster_id"))

\* C5: an authorized link invocation whose login is non-empty after
\* trim+lowercase and whose discord_user is non-empty after trim makes exactly
\* one outbound POST, to /admin/register, with the payload
\* {login: trim(lowercase(login)), discord_user_id: trim(discord_user)} and no
\* other key.
C5_LinkPayload ==
  ValidLink(interaction)
    => /\ pc \in {"register", "done"}
       /\ Len(calls) = 1
       /\ calls[1].method = "POST"
       /\ calls[1].base = ADMIN_BASE
       /\ calls[1].path = "/admin/register"
       /\ DOMAIN calls[1].payload = {"login", "discord_user_id"}
       /\ calls[1].payload.login = Trim(ToLowerCase(SuppliedLogin(interaction)))
       /\ calls[1].payload.discord_user_id =
            Trim(Supplied(interaction, "discord_user"))

C5_Witness ==
  /\ ValidLink(interaction)
  /\ Supplied(interaction, "twitch_login") = <<" ", "A">>
  /\ Supplied(interaction, "discord_user") = <<"A", " ">>
  /\ pc = "done"
  /\ Len(calls) = 1
  /\ calls[1].payload = [login |-> <<"a">>, discord_user_id |-> <<"A">>]

\* C6: an authorized invocation that fails option validation (link whose
\* login is empty after trim+lowercase or whose discord_user is empty after
\* trim; unlink with neither a login nor a broadcaster_id) makes no outbound
\* admin call and is answered with a CHANNEL_MESSAGE_WITH_SOURCE usage hint:
\* for link the example /link twitch_login:cxrys_ discord_user:@User, for
\* unlink both accepted forms.
C6_UsageHint ==
  LET i == interaction IN
  /\ (Authorized(i) /\ IsLink(i)
        /\ (Blank(SuppliedLogin(i)) \/ Blank(Supplied(i, "discord_user"))))
       => /\ calls = <<>>
          /\ "fetch" \notin events
          /\ RepliedWith(200)
          /\ IsChannelMessage(responses[1])
          /\ Contains(ContentOf(responses[1]),
                      "/link twitch_login:cxrys_ discord_user:@User")
  /\ (Authorized(i) /\ IsUnlink(i)
        /\ ~Truthy(Supplied(i, "twitch_login")) /\ ~Truthy(Supplied(i, "login"))
        /\ ~Truthy(Supplied(i, "broadcaster_id")))
       => /\ calls = <<>>
          /\ "fetch" \notin events
          /\ RepliedWith(200)
          /\ IsChannelMessage(responses[1])
          /\ Contains(ContentOf(responses[1]), "/unlink twitch_login:cxrys_")
          /\ Contains(ContentOf(responses[1]),
                      "/unlink broadcaster_id:564886943")

\* a link invocation without the discord_user option, answered
C6_Witness ==
  /\ Authorized(interaction)
  /\ IsLink(interaction)
  /\ Supplied(interaction, "twitch_login") = <<"A">>
  /\ Supplied(interaction, "discord_user") = Undefined
  /\ RepliedWith(200)
  /\ calls = <<>>

\* C7: every outbound unlink payload is sparse: it has a login key only if a
\* login was supplied and a broadcaster_id key only if a broadcaster_id was
\* supplied, it has at least one of the two, and no key it has carries a null
\* or empty value, also when the supplied option is whitespace-only.
C7_SparseUnlinkPayload ==
  \A k \in 1..Len(calls) :
    calls[k].path = "/admin/unregister"
      => LET payload == calls[k].payload IN
         /\ DOMAIN payload \subseteq {"login", "broadcaster_id"}
         /\ DOMAIN payload # {}
         /\ "login" \in DOMAIN payload
              => SuppliedLogin(interaction) # Undefined
         /\ "broadcaster_id" \in DOMAIN payload
              => Supplied(interaction, "broadcaster_id") # Undefined
         /\ \A key \in DOMAIN payload :
              payload[key] # Undefined /\ payload[key] # <<>>

\* the fetch failed, or its response has a status outside the success range
CallFailed(o) == o.net = "error" \/ (o.net = "ok" /\ o.status \notin 200..299)

FailedPrefix(i) ==
  IF IsLink(i) THEN ":x: Link failed: '" ELSE ":x: Unlink failed: '"

\* C8: when the outbound call of an authorized, valid link or unlink
\* invocation returns a non-success status or fails at the network level, the
\* handler does not fault and does not retry: it has made exactly one outbound
\* call and answers with a CHANNEL_MESSAGE_WITH_SOURCE whose content starts
\* with the Link failed: (Unlink failed:) prefix and, for a non-success
\* status, includes the status code.
C8_CallFailureReported ==
  ((ValidLink(interaction) \/ ValidUnlink(interaction)) /\ CallFailed(downstream))
    => /\ RepliedWith(200)
       /\ Len(calls) = 1
       /\ IsChannelMessage(responses[1])
       /\ StartsWith(ContentOf(responses[1]), FailedPrefix(interaction))
       /\ downstream.net = "ok"
            => Contains(ContentOf(responses[1]), StatusString(downstream.status))

C8_Witness ==
  /\ ValidUnlink(interaction)
  /\ downstream.net = "ok"
  /\ downstream.status = 500
  /\ downstream.body.kind = "object"
  /\ RepliedWith(200)
  /\ Contains(ContentOf(responses[1]), "500")

\* the invocation supplies the login under its legacy name only
OnlyLegacyLogin(i) ==
  /\ i.data.present
  /\ i.data.isArray
  /\ Supplied(i, "twitch_login") = Undefined
  /\ Supplied(i, "login") # Undefined

\* the same invocation with the login supplied as twitch_login instead
WithTwitchLogin(i) ==
  [i EXCEPT !.data.options =
     [k \in 1..Len(i.data.options) |->
        IF i.data.options[k].name = "login"
          THEN [i.data.options[k] EXCEPT !.name = "twitch_login"]
          ELSE i.data.options[k]]]

\* C9: for link and unlink, an invocation that supplies only the option login
\* (no twitch_login) produces the same outbound call or absence of one, the
\* same payload and the same reply as the invocation that supplies the same
\* value as twitch_login, whatever the value and the other options.
C9_LegacyAlias ==
  ((IsLink(interaction) \/ IsUnlink(interaction)) /\ OnlyLegacyLogin(interaction))
    => LET twin == WithTwitchLogin(interaction)
           d == Dispatch(twin)
       IN /\ calls = d.calls
          /\ downstream = NoOutcome => (pc = d.pc /\ responses = d.responses)
          /\ downstream # NoOutcome
               => /\ d.pc \in {"register", "unregister"}
                  /\ responses = <<Reply(d.pc, twin, downstream)>>

C9_Witness ==
  /\ ValidLink(interaction)
  /\ OnlyLegacyLogin(interaction)
  /\ Supplied(interaction, "login") = <<"A", " ">>
  /\ pc = "done"
  /\ downstream.net = "ok"
  /\ downstream.status = 200
  /\ Len(calls) = 1

\* the outbound call returned a body that cannot be decoded as JSON
Undecodable(o) == o.net = "ok" /\ o.body.kind = "malformed"

SucceededPrefix(i) ==
  IF IsLink(i) THEN ":white_check_mark: Linked **"
  ELSE ":white_check_mark: Unlinked Twitch ID '"

====
